---- MODULE Spec2Model ----
(***************************************************************************)
(* Inventory ledger and serial allocation of the inventory application:    *)
(* App (src/App.tsx 1-390), ItemDetailModal (src/App.tsx 392-745) and      *)
(* AddItemModal (src/unnamed/part_001).                                    *)
(*                                                                         *)
(* A JavaScript string is modelled as a sequence of one-character strings, *)
(* so that trim, toUpperCase, parseInt, padStart and the range regular     *)
(* expression are computed character by character.                         *)
(***************************************************************************)
EXTENDS Integers, Sequences, FiniteSets, TLC

(***************************************************************************)
(* Bounds of the model.                                                    *)
(***************************************************************************)
\* number of changes of the collection: each one happens at a later reading
\* of Date.now() than the one before
MaxClock == 3
\* number of different values Math.random() yields within one millisecond
RandMax == 2
\* longest transaction sequence of the stock fold specification
MaxLen == 3
\* largest quantity of the stock fold specification
MaxQty == 2
\* longest free text typed in the serial field
MaxText == 4

(***************************************************************************)
(* Strings.                                                                *)
(***************************************************************************)
DigitChars == <<"0", "1", "2", "3", "4", "5", "6", "7", "8", "9">>

IsDigit(c) == \E i \in 1..10 : DigitChars[i] = c

DigitVal(c) == (CHOOSE i \in 1..10 : DigitChars[i] = c) - 1

IsSpace(c) == c = " "

\* String.prototype.toUpperCase on one character (the letters the inputs use)
UpperChar(c) ==
    CASE c = "a" -> "A"
      [] c = "b" -> "B"
      [] c = "s" -> "S"
      [] c = "n" -> "N"
      [] OTHER -> c

toUpperCase(s) == [i \in 1..Len(s) |-> UpperChar(s[i])]

\* String.prototype.trim: drops the leading and the trailing white space
trim(s) ==
    LET keep == {i \in 1..Len(s) : ~IsSpace(s[i])}
    IN IF keep = {} THEN <<>>
       ELSE LET lo == CHOOSE i \in keep : \A j \in keep : i <= j
                hi == CHOOSE i \in keep : \A j \in keep : j <= i
            IN SubSeq(s, lo, hi)

\* String.prototype.includes for a one-character needle
includes(s, c) == \E i \in 1..Len(s) : s[i] = c

AllDigits(s) == \A i \in 1..Len(s) : IsDigit(s[i])

\* value of a non-empty string of decimal digits
RECURSIVE DigitsValue(_)
DigitsValue(s) ==
    IF Len(s) = 0 THEN 0
    ELSE 10 * DigitsValue(SubSeq(s, 1, Len(s) - 1)) + DigitVal(s[Len(s)])

\* last index of the run of digits that starts at i (i - 1 when s[i] is no
\* digit): \d+ from position i
DigitRunEnd(s, i) ==
    LET stops == {j \in i..Len(s) : ~IsDigit(s[j])}
    IN IF stops = {} THEN Len(s) ELSE (CHOOSE j \in stops : \A k \in stops : j <= k) - 1

\* last index of the run of white space that starts at i: \s* from position i
SpaceRunEnd(s, i) ==
    LET stops == {j \in i..Len(s) : ~IsSpace(s[j])}
    IN IF stops = {} THEN Len(s) ELSE (CHOOSE j \in stops : \A k \in stops : j <= k) - 1

\* the number read from the digits s[d..e], NaN when there is none
parseIntDigits(s, neg, d, e) ==
    IF e < d THEN [nan |-> TRUE, val |-> 0]
    ELSE [nan |-> FALSE,
          val |-> IF neg THEN 0 - DigitsValue(SubSeq(s, d, e)) ELSE DigitsValue(SubSeq(s, d, e))]

\* the sign at position b, when there is one, and the digits after it
parseIntSigned(s, b, sgn) ==
    parseIntDigits(s, sgn /\ s[b] = "-", IF sgn THEN b + 1 ELSE b,
                   DigitRunEnd(s, IF sgn THEN b + 1 ELSE b))

\* the number that starts at position b
parseIntAt(s, b) ==
    parseIntSigned(s, b, b <= Len(s) /\ (s[b] = "-" \/ s[b] = "+"))

\* parseInt(s, 10): skips leading white space, reads an optional sign and the
\* longest run of digits, ignores what follows; NaN when there is no digit
parseInt(s) == parseIntAt(s, SpaceRunEnd(s, 1) + 1)

\* x || 0 for the result x of parseInt
orZero(x) == IF x.nan THEN 0 ELSE x.val

\* parseInt(s, 10) || 0
parseIntOrZero(s) == orZero(parseInt(s))

\* Number.prototype.toString of a non-negative integer
RECURSIVE toString(_)
toString(n) ==
    IF n < 10 THEN <<DigitChars[n + 1]>>
    ELSE toString(n \div 10) \o <<DigitChars[(n % 10) + 1]>>

\* String.prototype.padStart(padLength, '0')
RECURSIVE padStart(_, _)
padStart(s, padLength) ==
    IF Len(s) >= padLength THEN s ELSE padStart(<<"0">> \o s, padLength)

(***************************************************************************)
(* Serial allocator: parseSerialRange (src/App.tsx 434-451).               *)
(***************************************************************************)
\* number of digits the string ends with
DigitSuffixLen(s) ==
    LET nd == {j \in 1..Len(s) : ~IsDigit(s[j])}
    IN IF nd = {} THEN Len(s) ELSE Len(s) - (CHOOSE j \in nd : \A k \in nd : k <= j)

\* t when the digits s[i..e] are not empty and s[t] is "~", else 0
TildeAt(s, i, e, t) ==
    IF e >= i /\ t <= Len(s) /\ s[t] = "~" THEN t ELSE 0

\* index of the "~" that follows the digits starting at i and optional white
\* space, 0 when there is none: (\d+)\s*~ with the digits starting at i
TildeAfterDigits(s, i) ==
    TildeAt(s, i, DigitRunEnd(s, i), SpaceRunEnd(s, DigitRunEnd(s, i) + 1) + 1)

\* the least element of a set of positions, 0 for the empty set
FirstOf(positions) ==
    IF positions = {} THEN 0 ELSE CHOOSE p \in positions : \A q \in positions : p <= q

\* the groups of the match whose group 1 is s[1..p1], whose group 2 ends at
\* e2 and whose tail after "~" and white space starts at tpos; d is the
\* number of digits s ends with.  The optional group 3 is tried first and is
\* lazy: with a tail of two or more characters it takes the fewest
\* characters (at least one) that leave only digits for group 4, also when
\* that character is itself a digit; with a tail of one digit it is skipped.
rangeGroups(s, p1, e2, tpos, d) ==
    LET tlen == Len(s) - tpos + 1
    IN IF tlen < 1 \/ d < 1 THEN [ok |-> FALSE]
       ELSE [ok |-> TRUE,
             g1 |-> SubSeq(s, 1, p1),
             g2 |-> SubSeq(s, p1 + 1, e2),
             g4 |-> SubSeq(s, tpos + (IF tlen = 1 THEN 0
                                      ELSE IF tlen - d > 1 THEN tlen - d ELSE 1), Len(s))]

\* the match with group 1 = s[1..p1]; p1 = 0: no match
rangeMatchFrom(s, p1) ==
    IF p1 = 0 THEN [ok |-> FALSE]
    ELSE rangeGroups(s, p1, DigitRunEnd(s, p1 + 1),
                     SpaceRunEnd(s, TildeAfterDigits(s, p1 + 1) + 1) + 1, DigitSuffixLen(s))

\* input.match(/^(.+?)(\d+)\s*~\s*(.+?)?(\d+)$/) in the backtracking order of
\* the engine.  Group 1 is lazy: the shortest non-empty prefix after which
\* digits, white space and "~" follow.  Group 2 is greedy: the whole digit
\* run.
rangeMatch(s) ==
    rangeMatchFrom(s, FirstOf({p \in 1..(Len(s) - 1) : TildeAfterDigits(s, p + 1) > 0}))

\* the serials prefix + padded(i) for i = startNum .. endNum, in loop order
RECURSIVE rangeLoop(_, _, _, _)
rangeLoop(prefix, i, endNum, padLength) ==
    IF i > endNum THEN <<>>
    ELSE <<prefix \o padStart(toString(i), padLength)>>
         \o rangeLoop(prefix, i + 1, endNum, padLength)

\* parseSerialRange without the test startNum > endNum
rangeSerialsNoOrderTest(input, prefix, startNumStr, startNum, endNum) ==
    IF endNum - startNum >= 100 THEN [threw |-> TRUE, serials |-> <<>>]
    ELSE [threw |-> FALSE,
          serials |-> rangeLoop(prefix, startNum, endNum, Len(startNumStr))]

\* the part of parseSerialRange after the match and the two parseInt
rangeSerials(input, prefix, startNumStr, startNum, endNum) ==
    IF startNum > endNum THEN [threw |-> FALSE, serials |-> <<trim(input)>>]
    ELSE IF endNum - startNum >= 100 THEN [threw |-> TRUE, serials |-> <<>>]
    ELSE [threw |-> FALSE,
          serials |-> rangeLoop(prefix, startNum, endNum, Len(startNumStr))]

\* parseSerialRange on the result m of the match
rangeOfMatch(input, m) ==
    IF ~m.ok THEN [threw |-> FALSE, serials |-> <<trim(input)>>]
    ELSE rangeSerials(input, m.g1, m.g2, parseInt(m.g2).val, parseInt(m.g4).val)

\* parseSerialRange: threw = TRUE models the thrown Error
parseSerialRange(input) == rangeOfMatch(input, rangeMatch(input))

(***************************************************************************)
(* Serial allocator: suggestNextSerial (src/App.tsx 412-432).              *)
(***************************************************************************)
LetterChars == {"A", "B", "N", "S", "X", "a", "b", "n", "s", "x"}

IsLetter(c) == c \in LetterChars

\* last index of the run of letters that starts at i: [a-zA-Z]+ from i
LetterRunEnd(s, i) ==
    LET stops == {j \in i..Len(s) : ~IsLetter(s[j])}
    IN IF stops = {} THEN Len(s) ELSE (CHOOSE j \in stops : \A k \in stops : j <= k) - 1

\* the groups of the match whose letters end at e
suggestGroups(s, e) ==
    IF e >= 1 /\ e < Len(s) /\ DigitRunEnd(s, e + 1) = Len(s)
    THEN [ok |-> TRUE, g1 |-> SubSeq(s, 1, e), g2 |-> SubSeq(s, e + 1, Len(s))]
    ELSE [ok |-> FALSE]

\* s.match(/^([a-zA-Z]+)(\d+)$/)
suggestMatch(s) == suggestGroups(s, LetterRunEnd(s, 1))

\* The numbers of suggestNextSerial are IEEE 754 doubles: integers up to 2^53
\* are exact, and from 2^53 to 2^54 only the even ones exist.  Such a number
\* is written here as its decimal halves, hi * 10^8 + lo, for values below
\* 2^54 (serials of at most 16 digits).
NumberSplit == 10 ^ 8

\* 2^53 = 9007199254740992
MaxExact == [hi |-> 90071992, lo |-> 54740992]

numberLess(a, b) == a.hi < b.hi \/ (a.hi = b.hi /\ a.lo < b.lo)

numberSucc(a) ==
    IF a.lo + 1 = NumberSplit THEN [hi |-> a.hi + 1, lo |-> 0] ELSE [hi |-> a.hi, lo |-> a.lo + 1]

numberPred(a) ==
    IF a.lo = 0 THEN [hi |-> a.hi - 1, lo |-> NumberSplit - 1] ELSE [hi |-> a.hi, lo |-> a.lo - 1]

\* the double nearest to the integer a, ties to the even mantissa: above
\* 2^53 an odd integer goes to its neighbour that is a multiple of 4
roundToDouble(a) ==
    IF ~numberLess(MaxExact, a) \/ a.lo % 2 = 0 THEN a
    ELSE IF (a.lo - 1) % 4 = 0 THEN numberPred(a) ELSE numberSucc(a)

\* parseInt(digits, 10) of a run of digits
parseNumber(digits) ==
    LET n == Len(digits)
    IN roundToDouble([hi |-> IF n > 8 THEN parseInt(SubSeq(digits, 1, n - 8)).val ELSE 0,
                      lo |-> parseInt(SubSeq(digits, IF n > 8 THEN n - 7 ELSE 1, n)).val])

\* a + 1 in double arithmetic
numberPlusOne(a) == roundToDouble(numberSucc(a))

\* Number.prototype.toString of such a number
numberToString(a) ==
    IF a.hi = 0 THEN toString(a.lo) ELSE toString(a.hi) \o padStart(toString(a.lo), 8)

\* the body of the forEach for the match m of one serial
suggestStep(m, maxNum, currentPrefix) ==
    IF m.ok
    THEN [maxNum |-> IF numberLess(maxNum, parseNumber(m.g2))
                     THEN parseNumber(m.g2) ELSE maxNum,
          currentPrefix |-> m.g1]
    ELSE [maxNum |-> maxNum, currentPrefix |-> currentPrefix]

\* usedSerials.forEach from the k-th serial on
RECURSIVE suggestScan(_, _, _)
suggestScan(usedSerials, k, acc) ==
    IF k > Len(usedSerials) THEN acc
    ELSE suggestScan(usedSerials, k + 1,
                     suggestStep(suggestMatch(usedSerials[k]), acc.maxNum, acc.currentPrefix))

\* nextNum.toString().padStart(Math.max(5, nextNum.toString().length), '0')
suggestPad(str) == padStart(str, IF Len(str) > 5 THEN Len(str) ELSE 5)

\* the serial made of the scan without the increment of maxNum
suggestFormatNoIncrement(acc) == acc.currentPrefix \o suggestPad(numberToString(acc.maxNum))

\* the serial made of the result of the scan
suggestFormat(acc) ==
    acc.currentPrefix \o suggestPad(numberToString(numberPlusOne(acc.maxNum)))

\* suggestNextSerial
suggestNextSerial(usedSerials) ==
    IF Len(usedSerials) = 0 THEN <<"S", "N", "0", "0", "0", "0", "1">>
    ELSE suggestFormat(suggestScan(usedSerials, 1,
                                   [maxNum |-> [hi |-> 0, lo |-> 0],
                                    currentPrefix |-> <<"S", "N">>]))

(***************************************************************************)
(* Ledger model.  An item is [id, type, code, name, transactions]; a       *)
(* transaction is [id, type, quantity, serialNumber].  The fields that no  *)
(* condition of the code reads (remarks, dates, customer data) are left    *)
(* out.  A missing serialNumber is the empty string: both are falsy.       *)
(***************************************************************************)
ADMIN_PASSWORD == <<"0", "0", "0", "0">>

PRODUCT_ONLY_PASSWORD == <<"1", "1", "1", "1">>

\* The draws Math.floor(Math.random() * 1000) of the n calls of generateId
\* made with the same prefix in the same millisecond.  The code only ever
\* compares ids for equality, so a draw is named by the rank of its first
\* occurrence: the first draw is 0, a later draw repeats an earlier one or is
\* the next unused rank, and at most RandMax different values occur.
RandomDraws(n) ==
    {rs \in [1..n -> 0..(RandMax - 1)] :
        \A k \in 1..n : rs[k] = 0 \/ \E j \in 1..(k - 1) : rs[j] = rs[k] - 1}

\* generateId: prefix, Date.now() and the random draw
generateId(prefix, now, r) == <<prefix, now, r>>

NoId == <<>>

\* calculateStock of the list view: reduce from the left, starting at 0
RECURSIVE calculateStockFrom(_, _, _)
calculateStockFrom(ts, i, acc) ==
    IF i > Len(ts) THEN acc
    ELSE calculateStockFrom(ts, i + 1,
            IF ts[i].type = "purchase" THEN acc + ts[i].quantity ELSE acc - ts[i].quantity)

\* a fold that never lets the running stock fall below zero
RECURSIVE calculateStockFloorFrom(_, _, _)
calculateStockFloorFrom(ts, i, acc) ==
    IF i > Len(ts) THEN acc
    ELSE calculateStockFloorFrom(ts, i + 1,
            IF ts[i].type = "purchase" THEN acc + ts[i].quantity
            ELSE IF acc - ts[i].quantity < 0 THEN 0 ELSE acc - ts[i].quantity)

calculateStockFloor(item) == calculateStockFloorFrom(item.transactions, 1, 0)

calculateStock(item) == calculateStockFrom(item.transactions, 1, 0)

\* currentStock of the detail view: the same reduce, written a second time
RECURSIVE currentStockUpTo(_, _)
currentStockUpTo(ts, n) ==
    IF n = 0 THEN 0
    ELSE IF ts[n].type = "purchase"
         THEN currentStockUpTo(ts, n - 1) + ts[n].quantity
         ELSE currentStockUpTo(ts, n - 1) - ts[n].quantity

currentStock(transactions) == currentStockUpTo(transactions, Len(transactions))

\* the non-empty serials of one transaction list, upper-cased
serialsOf(ts) ==
    {toUpperCase(ts[j].serialNumber) : j \in {k \in 1..Len(ts) : ts[k].serialNumber # <<>>}}

\* allUsedSerials: the upper-cased non-empty serials of all transactions of
\* all items, without repetition
allUsedSerialsOf(its) == UNION {serialsOf(its[i].transactions) : i \in 1..Len(its)}

\* items.map(i => i.code)
existingCodesOf(its) == [i \in 1..Len(its) |-> its[i].code]

\* items.find(i => i.id === id): the first item with that id
findItem(its, id) ==
    LET hits == {i \in 1..Len(its) : its[i].id = id}
    IN its[CHOOSE i \in hits : \A j \in hits : i <= j]

hasItem(its, id) == \E i \in 1..Len(its) : its[i].id = id

(***************************************************************************)
(* Item creation: AddItemModal.handleSubmit and App.handleAddItem.         *)
(***************************************************************************)
\* App.handleAddItem: a fresh item in front of the list, seeded with one
\* purchase when initialQuantity > 0
handleAddItem(its, itemData, initialQuantity, now, r1, r2) ==
    LET seed == [id |-> generateId("t", now, r2), type |-> "purchase",
                 quantity |-> initialQuantity, serialNumber |-> <<>>]
        newItem == [id |-> generateId("item", now, r1), type |-> itemData.type,
                    code |-> itemData.code, name |-> itemData.name,
                    transactions |-> IF initialQuantity > 0 THEN <<seed>> ELSE <<>>]
    IN <<newItem>> \o its

\* AddItemModal.isCodeDuplicate: the trimmed code against the existing codes
addIsCodeDuplicate(existingCodes, code) ==
    /\ trim(code) # <<>>
    /\ \E i \in 1..Len(existingCodes) :
          toUpperCase(existingCodes[i]) = toUpperCase(trim(code))

\* AddItemModal.handleSubmit on the form data (code and name as handleChange
\* stored them); the result is the new collection, the old one on rejection
addItemSubmit(its, itemType, code, name, initialQuantity, now, r1, r2) ==
    IF code = <<>> \/ name = <<>> THEN its
    ELSE IF addIsCodeDuplicate(existingCodesOf(its), code) THEN its
    ELSE handleAddItem(its, [type |-> itemType, code |-> code, name |-> name],
                       parseIntOrZero(initialQuantity), now, r1, r2)

(***************************************************************************)
(* Transaction submission: ItemDetailModal.handleAddTransaction and        *)
(* App.handleAddTransaction.                                               *)
(***************************************************************************)
\* isSerialDuplicate: disables the submit button
isSerialDuplicate(used, serialNumber) ==
    /\ trim(serialNumber) # <<>>
    /\ ~includes(serialNumber, "~")
    /\ toUpperCase(serialNumber) \in used

\* targetSerials and isRange of handleAddTransaction for a range
rangeTargets(parsed) ==
    [isRange |-> TRUE, threw |-> parsed.threw, targetSerials |-> parsed.serials]

\* targetSerials and isRange of handleAddTransaction; threw: parseSerialRange
\* threw and the handler returned
submitTargets(item, serialNumber) ==
    IF item.type = "product" /\ includes(serialNumber, "~")
    THEN rangeTargets(parseSerialRange(toUpperCase(serialNumber)))
    ELSE [isRange |-> FALSE, threw |-> FALSE,
          targetSerials |-> <<trim(toUpperCase(serialNumber))>>]

\* the count taken from the typed quantity, also for a range
submitCountTyped(targets, quantity) == parseIntOrZero(quantity)

\* count of handleAddTransaction
submitCount(targets, quantity) ==
    IF targets.isRange THEN Len(targets.targetSerials) ELSE parseIntOrZero(quantity)

\* the checks without the comparison of the count with the stock
submitVerdictNoStockCheck(targets, used, transactionType, count, stock) ==
    IF targets.threw THEN "range_too_large"
    ELSE IF \E i \in 1..Len(targets.targetSerials) :
                targets.targetSerials[i] # <<>> /\ targets.targetSerials[i] \in used
         THEN "duplicate"
    ELSE IF count <= 0 THEN "invalid_quantity"
    ELSE "accepted"

\* the checks looking for duplicates in single serials only
submitVerdictNoRangeDuplicates(targets, used, transactionType, count, stock) ==
    IF targets.threw THEN "range_too_large"
    ELSE IF \E i \in 1..Len(targets.targetSerials) :
                /\ ~targets.isRange
                /\ targets.targetSerials[i] # <<>> /\ targets.targetSerials[i] \in used
         THEN "duplicate"
    ELSE IF count <= 0 THEN "invalid_quantity"
    ELSE IF transactionType = "release" /\ count > stock THEN "exceeds_stock"
    ELSE "accepted"

\* the checks of handleAddTransaction in their order: the range, the
\* duplicates, the count, the stock
submitVerdict(targets, used, transactionType, count, stock) ==
    IF targets.threw THEN "range_too_large"
    ELSE IF \E i \in 1..Len(targets.targetSerials) :
                targets.targetSerials[i] # <<>> /\ targets.targetSerials[i] \in used
         THEN "duplicate"
    ELSE IF count <= 0 THEN "invalid_quantity"
    ELSE IF transactionType = "release" /\ count > stock THEN "exceeds_stock"
    ELSE "accepted"

\* the plan of a submission with the given targets
submitPlanFor(targets, used, transactionType, quantity, stock) ==
    [verdict |-> submitVerdict(targets, used, transactionType,
                               submitCount(targets, quantity), stock),
     isRange |-> targets.isRange,
     targetSerials |-> targets.targetSerials,
     count |-> submitCount(targets, quantity)]

\* the first part of ItemDetailModal.handleAddTransaction: the target
\* serials, the count and the verdict of the checks
submitPlan(item, used, transactionType, quantity, serialNumber) ==
    submitPlanFor(submitTargets(item, serialNumber), used, transactionType, quantity,
                  currentStock(item.transactions))

\* a range submission whose transactions each carry the count of the range
submitTransactionsRangeCount(item, plan, transactionType, serialNumber) ==
    IF plan.verdict # "accepted" THEN <<>>
    ELSE IF plan.isRange
         THEN [i \in 1..Len(plan.targetSerials) |->
                  [type |-> transactionType, quantity |-> plan.count,
                   serialNumber |-> plan.targetSerials[i]]]
         ELSE <<[type |-> transactionType, quantity |-> plan.count,
                 serialNumber |-> IF item.type = "product"
                                  THEN toUpperCase(serialNumber) ELSE <<>>]>>

\* the transactions the accepted submission hands to onAddTransaction, in
\* call order and still without id
submitTransactions(item, plan, transactionType, serialNumber) ==
    IF plan.verdict # "accepted" THEN <<>>
    ELSE IF plan.isRange
         THEN [i \in 1..Len(plan.targetSerials) |->
                  [type |-> transactionType, quantity |-> 1,
                   serialNumber |-> plan.targetSerials[i]]]
         ELSE <<[type |-> transactionType, quantity |-> plan.count,
                 serialNumber |-> IF item.type = "product"
                                  THEN toUpperCase(serialNumber) ELSE <<>>]>>

\* App.handleAddTransaction: the transaction gets its id and is appended to
\* the transactions of every item with that id
handleAddTransaction(its, itemId, transaction, now, r) ==
    LET newTransaction == [id |-> generateId("t", now, r), type |-> transaction.type,
                           quantity |-> transaction.quantity,
                           serialNumber |-> transaction.serialNumber]
    IN [i \in 1..Len(its) |->
          IF its[i].id = itemId
          THEN [its[i] EXCEPT !.transactions = Append(@, newTransaction)]
          ELSE its[i]]

\* the calls of onAddTransaction of one submission, one after the other;
\* rs[k] is the random draw of the k-th call
RECURSIVE addAll(_, _, _, _, _, _)
addAll(its, itemId, txs, now, rs, k) ==
    IF k > Len(txs) THEN its
    ELSE addAll(handleAddTransaction(its, itemId, txs[k], now, rs[k]),
                itemId, txs, now, rs, k + 1)

\* ItemDetailModal.handleAddTransaction as a whole: the new collection
submitTransaction(its, item, transactionType, quantity, serialNumber, now, rs) ==
    LET plan == submitPlan(item, allUsedSerialsOf(its), transactionType, quantity, serialNumber)
    IN addAll(its, item.id, submitTransactions(item, plan, transactionType, serialNumber),
              now, rs, 1)

(***************************************************************************)
(* Corrections and deletions: the App handlers the confirmations call.     *)
(***************************************************************************)
\* App.handleUpdateItem: { ...item, ...updatedData } on every item with the id
handleUpdateItem(its, itemId, updatedData) ==
    [i \in 1..Len(its) |->
        IF its[i].id = itemId
        THEN [its[i] EXCEPT !.code = updatedData.code, !.name = updatedData.name]
        ELSE its[i]]

\* App.handleUpdateTransaction: { ...t, ...updatedData } on every transaction
\* with the id, in every item with the id
handleUpdateTransaction(its, itemId, transactionId, updatedData) ==
    [i \in 1..Len(its) |->
        IF its[i].id = itemId
        THEN [its[i] EXCEPT !.transactions =
                [j \in 1..Len(@) |-> IF @[j].id = transactionId THEN updatedData ELSE @[j]]]
        ELSE its[i]]

\* App.handleDeleteTransaction (filter is SelectSeq)
handleDeleteTransaction(its, itemId, transactionId) ==
    [i \in 1..Len(its) |->
        IF its[i].id = itemId
        THEN [its[i] EXCEPT !.transactions =
                LET keep(t) == t.id # transactionId IN SelectSeq(@, keep)]
        ELSE its[i]]

\* the setItems of handleDeleteItemConfirm
deleteItem(its, itemId) == LET keep(i) == i.id # itemId IN SelectSeq(its, keep)

\* ItemDetailModal.isCodeDuplicate (item edit)
editIsCodeDuplicate(existingCodes, item, code) ==
    /\ code # <<>>
    /\ code # item.code
    /\ \E i \in 1..Len(existingCodes) : toUpperCase(existingCodes[i]) = toUpperCase(code)

\* handleTransEditChange: the new value of the field
transEditValue(name, value) ==
    IF name = "quantity" THEN parseIntOrZero(value) ELSE toUpperCase(value)

\* correctPassword / requiredPass
requiredPassAnyRole(role) == ADMIN_PASSWORD

requiredPass(role) == IF role = "admin" THEN ADMIN_PASSWORD ELSE PRODUCT_ONLY_PASSWORD

(***************************************************************************)
(* State: the useState cells of App and of ItemDetailModal, and the clock  *)
(* that Date.now() reads.                                                  *)
(***************************************************************************)
VARIABLES items, clock, authRole, activeTab, selectedItemId, itemToDelete,
          deletePassword, isEditing, editFormData, editingTransactionId,
          transEditData, showPasswordInput, password,
          kvConfigured, startup, bootStorage, localStorage, remote, pushTimer,
          pushes, syncStatus,
          arg, res

\* arg and res hold the argument and the result of a pure function in the
\* specifications that exercise one function on its own
vars == <<items, clock, authRole, activeTab, selectedItemId, itemToDelete,
          deletePassword, isEditing, editFormData, editingTransactionId,
          transEditData, showPasswordInput, password,
          kvConfigured, startup, bootStorage, localStorage, remote, pushTimer,
          pushes, syncStatus, arg, res>>

stateVars == <<items, clock, authRole, activeTab, selectedItemId, itemToDelete,
               deletePassword, isEditing, editFormData, editingTransactionId,
               transEditData, showPasswordInput, password,
               kvConfigured, startup, bootStorage, localStorage, remote,
               pushTimer, pushes, syncStatus>>

\* the storage of the browser, the remote store and the requests under way:
\* kvConfigured is KV_URL && KV_TOKEN, startup the progress of the startup
\* fetch, bootStorage what STORAGE_KEY held when the page was loaded,
\* localStorage what it holds now, remote what DB_KEY holds, pushTimer the
\* timer of the persist effect, pushes the POST requests under way
syncVars == <<kvConfigured, startup, bootStorage, localStorage, remote, pushTimer,
              pushes, syncStatus>>

probeVars == <<arg, res>>

NoArg == [kind |-> "none"]

NoRes == [kind |-> "none"]

appVars == <<authRole, activeTab, selectedItemId, itemToDelete, deletePassword>>

modalVars == <<isEditing, editFormData, editingTransactionId, transEditData,
               showPasswordInput, password>>

\* localStorage.getItem and data.result without a value
NoValue == <<"null">>

\* no timer is pending; pushTimer is the set of the pending timers
NoTimer == {}

\* the timer that the persist effect sets for a collection
timerFor(its) == IF Len(its) > 0 THEN {<<"timer", its>>} ELSE {}

\* the cleanup of the previous run of the persist effect clears the timer of
\* that run, then the new run sets its own
rescheduled(timers, before, after) == (timers \ timerFor(before)) \cup timerFor(after)

\* JSON.stringify and JSON.parse of the collection: the items of the model
\* hold strings and integers only, on which the text determines the value
stringify(its) == <<"json", its>>

parse(text) == text[2]

\* the body of the POST of saveToServer, and parsed.items || [] of the fetch
payloadOf(data) == <<"json", [items |-> data]>>

itemsOfPayload(text) == text[2].items

\* the persist effect on [items]: it runs when the collection has changed
persistEffectNoLocalWrite ==
    IF items' = items THEN UNCHANGED syncVars
    ELSE /\ pushTimer' = rescheduled(pushTimer, items, items')
         /\ UNCHANGED <<kvConfigured, startup, bootStorage, localStorage, remote,
                        pushes, syncStatus>>

persistEffect ==
    IF items' = items THEN UNCHANGED syncVars
    ELSE /\ localStorage' = stringify(items')
         /\ pushTimer' = rescheduled(pushTimer, items, items')
         /\ UNCHANGED <<kvConfigured, startup, bootStorage, remote, pushes, syncStatus>>

\* what the user types
TypedPasswords == {ADMIN_PASSWORD, PRODUCT_ONLY_PASSWORD}

TypedCodes == {<<>>, <<"a">>, <<"A", " ">>}

TypedNames == {<<>>, <<"w">>}

TypedInitialQuantities == {<<>>, <<"2">>, <<"-", "1">>}

TypedQuantities == {<<>>, <<"1">>, <<"3">>}

TypedEditQuantities == {<<>>, <<"3">>}

TypedEditSerials == {<<"s", "n", "1">>}

TypedSerials == {<<"s", "n", "1">>, <<"S", "N", "1", " ">>,
                 <<"S", "N", "1", "~", "2">>,
                 <<"S", "N", "1", "~", "S", "N", "1", "0", "1">>}

NoAction == [type |-> "none", targetId |-> NoId]

NoFormData == [code |-> <<>>, name |-> <<>>]

NoTransData == [id |-> NoId, type |-> "purchase", quantity |-> 0, serialNumber |-> <<>>]

\* the item the detail modal shows
selectedItem == findItem(items, selectedItemId)

detailOpen == selectedItemId # NoId /\ hasItem(items, selectedItemId)

\* filteredInventory with an empty search term: the items of the active tab
filteredInventory == {i \in 1..Len(items) : items[i].type = activeTab}

\* the list and the header can be clicked: logged in, no dialog on top
listActive == authRole # "none" /\ itemToDelete = NoId /\ ~detailOpen

\* the detail modal can be clicked: no password dialog on top
modalActive == authRole # "none" /\ detailOpen /\ showPasswordInput.type = "none"

\* the state of a freshly mounted ItemDetailModal, after its effects
MountModal(item) ==
    /\ isEditing' = FALSE
    /\ editFormData' = [code |-> item.code, name |-> item.name]
    /\ editingTransactionId' = NoId
    /\ transEditData' = NoTransData
    /\ showPasswordInput' = NoAction
    /\ password' = <<>>

UnmountModal ==
    /\ isEditing' = FALSE
    /\ editFormData' = NoFormData
    /\ editingTransactionId' = NoId
    /\ transEditData' = NoTransData
    /\ showPasswordInput' = NoAction
    /\ password' = <<>>

AppInit ==
    /\ items = <<>>
    /\ clock = 0
    /\ authRole = "none"
    /\ activeTab = "part"
    /\ selectedItemId = NoId
    /\ itemToDelete = NoId
    /\ deletePassword = <<>>
    /\ isEditing = FALSE
    /\ editFormData = NoFormData
    /\ editingTransactionId = NoId
    /\ transEditData = NoTransData
    /\ showPasswordInput = NoAction
    /\ password = <<>>

\* a browser without the KV settings and without stored data, after the
\* effects of the mount have run
SyncStarted ==
    /\ kvConfigured = FALSE
    /\ startup = "done"
    /\ bootStorage = NoValue
    /\ localStorage = stringify(<<>>)
    /\ remote = NoValue
    /\ pushTimer = NoTimer
    /\ pushes = {}
    /\ syncStatus = "idle"

StateInit == AppInit /\ SyncStarted

Init == StateInit /\ arg = NoArg /\ res = NoRes

(***************************************************************************)
(* Actions of App.                                                         *)
(***************************************************************************)
\* handleLogin on the typed password; a wrong password changes nothing
Login ==
    /\ startup # "created"
    /\ authRole = "none"
    /\ \E loginPassword \in TypedPasswords :
          authRole' = IF loginPassword = ADMIN_PASSWORD THEN "admin"
                      ELSE IF loginPassword = PRODUCT_ONLY_PASSWORD THEN "product_only"
                      ELSE authRole
    /\ IF detailOpen THEN MountModal(selectedItem) ELSE UNCHANGED modalVars
    /\ UNCHANGED <<items, clock, activeTab, selectedItemId, itemToDelete, deletePassword>>
    /\ UNCHANGED probeVars
    /\ persistEffect

\* handleLogout; the login screen replaces the page
Logout ==
    /\ listActive
    /\ authRole' = "none"
    /\ UNCHANGED <<items, clock, activeTab, selectedItemId, itemToDelete, deletePassword>>
    /\ UNCHANGED modalVars
    /\ UNCHANGED probeVars
    /\ persistEffect

\* the tab buttons; the part tab is rendered for the admin role only
SetActiveTab ==
    /\ listActive
    /\ \E tab \in {"part", "product"} :
          /\ tab = "part" => authRole = "admin"
          /\ activeTab' = tab
    /\ UNCHANGED <<items, clock, authRole, selectedItemId, itemToDelete, deletePassword>>
    /\ UNCHANGED modalVars
    /\ UNCHANGED probeVars
    /\ persistEffect

\* the add dialog: the typed fields (handleChange upper-cases code and name),
\* AddItemModal.handleSubmit and App.handleAddItem
AddItem ==
    /\ listActive
    /\ clock < MaxClock
    /\ \E itemType \in {"part", "product"}, code \in TypedCodes, name \in TypedNames,
          initialQuantity \in TypedInitialQuantities,
          r1 \in RandomDraws(1), r2 \in RandomDraws(1) :
          items' = addItemSubmit(items, itemType, toUpperCase(code), toUpperCase(name),
                                 initialQuantity, clock + 1, r1[1], r2[1])
    /\ clock' = IF items' = items THEN clock ELSE clock + 1
    /\ UNCHANGED appVars
    /\ UNCHANGED modalVars
    /\ UNCHANGED probeVars
    /\ persistEffect

\* the detail button of a listed item mounts the detail modal
OpenDetail ==
    /\ listActive
    /\ \E i \in filteredInventory :
          /\ selectedItemId' = items[i].id
          /\ MountModal(findItem(items, items[i].id))
    /\ UNCHANGED <<items, clock, authRole, activeTab, itemToDelete, deletePassword>>
    /\ UNCHANGED probeVars
    /\ persistEffect

\* onClose of the detail modal
CloseDetail ==
    /\ modalActive
    /\ selectedItemId' = NoId
    /\ UnmountModal
    /\ UNCHANGED <<items, clock, authRole, activeTab, itemToDelete, deletePassword>>
    /\ UNCHANGED probeVars
    /\ persistEffect

\* the trash button of a listed item
RequestDeleteItem ==
    /\ listActive
    /\ \E i \in filteredInventory : itemToDelete' = items[i].id
    /\ UNCHANGED <<items, clock, authRole, activeTab, selectedItemId, deletePassword>>
    /\ UNCHANGED modalVars
    /\ UNCHANGED probeVars
    /\ persistEffect

\* typing into the password field of the delete dialog
TypeDeletePassword ==
    /\ authRole # "none"
    /\ itemToDelete # NoId
    /\ \E p \in TypedPasswords : deletePassword' = p
    /\ UNCHANGED <<items, clock, authRole, activeTab, selectedItemId, itemToDelete>>
    /\ UNCHANGED modalVars
    /\ UNCHANGED probeVars
    /\ persistEffect

\* the cancel button of the delete dialog
CancelDeleteItem ==
    /\ authRole # "none"
    /\ itemToDelete # NoId
    /\ itemToDelete' = NoId
    /\ UNCHANGED <<items, clock, authRole, activeTab, selectedItemId, deletePassword>>
    /\ UNCHANGED modalVars
    /\ UNCHANGED probeVars
    /\ persistEffect

\* handleDeleteItemConfirm
DeleteItemConfirm ==
    /\ authRole # "none"
    /\ itemToDelete # NoId
    /\ IF deletePassword # requiredPass(authRole)
       THEN UNCHANGED <<items, itemToDelete, deletePassword>>
       ELSE /\ clock < MaxClock
            /\ items' = deleteItem(items, itemToDelete)
            /\ itemToDelete' = NoId
            /\ deletePassword' = <<>>
    /\ clock' = IF items' = items THEN clock ELSE clock + 1
    /\ UNCHANGED <<authRole, activeTab, selectedItemId>>
    /\ UNCHANGED modalVars
    /\ UNCHANGED probeVars
    /\ persistEffect

(***************************************************************************)
(* Actions of ItemDetailModal.                                             *)
(***************************************************************************)
\* the effect on [item]: the edit form is reloaded from the changed item
ReloadFormData ==
    editFormData' = IF hasItem(items', selectedItemId)
                    THEN [code |-> findItem(items', selectedItemId).code,
                          name |-> findItem(items', selectedItemId).name]
                    ELSE editFormData

\* the submission form: the typed fields (the serial field exists for
\* products only and upper-cases its input; the submit button is disabled
\* while isSerialDuplicate) and ItemDetailModal.handleAddTransaction
SubmitTransaction ==
    /\ modalActive
    /\ ~isEditing
    /\ clock < MaxClock
    /\ \E transactionType \in {"purchase", "release"}, quantity \in TypedQuantities,
          typed \in TypedSerials :
          LET serialNumber == IF selectedItem.type = "product" THEN toUpperCase(typed) ELSE <<>>
              plan == submitPlan(selectedItem, allUsedSerialsOf(items), transactionType,
                                 quantity, serialNumber)
              n    == Len(submitTransactions(selectedItem, plan, transactionType, serialNumber))
          IN /\ ~isSerialDuplicate(allUsedSerialsOf(items), serialNumber)
             /\ \E rs \in RandomDraws(n) :
                   items' = submitTransaction(items, selectedItem, transactionType, quantity,
                                              serialNumber, clock + 1, rs)
    /\ clock' = IF items' = items THEN clock ELSE clock + 1
    /\ IF items' = items THEN UNCHANGED editFormData ELSE ReloadFormData
    /\ UNCHANGED appVars
    /\ UNCHANGED <<isEditing, editingTransactionId, transEditData, showPasswordInput, password>>
    /\ UNCHANGED probeVars
    /\ persistEffect

\* handleToggleEdit outside edit mode
StartItemEdit ==
    /\ modalActive
    /\ ~isEditing
    /\ isEditing' = TRUE
    /\ UNCHANGED <<items, clock, editFormData, editingTransactionId, transEditData,
                   showPasswordInput, password>>
    /\ UNCHANGED appVars
    /\ UNCHANGED probeVars
    /\ persistEffect

\* typing into the name and code fields of the edit form (upper-cased)
ItemEditChange ==
    /\ modalActive
    /\ isEditing
    /\ \E code \in TypedCodes, name \in TypedNames :
          editFormData' = [code |-> toUpperCase(code), name |-> toUpperCase(name)]
    /\ UNCHANGED <<items, clock, isEditing, editingTransactionId, transEditData,
                   showPasswordInput, password>>
    /\ UNCHANGED appVars
    /\ UNCHANGED probeVars
    /\ persistEffect

\* the cancel button of edit mode
CancelItemEdit ==
    /\ modalActive
    /\ isEditing
    /\ isEditing' = FALSE
    /\ UNCHANGED <<items, clock, editFormData, editingTransactionId, transEditData,
                   showPasswordInput, password>>
    /\ UNCHANGED appVars
    /\ UNCHANGED probeVars
    /\ persistEffect

\* handleToggleEdit in edit mode: the checks, then the password dialog
SaveItemEdit ==
    /\ modalActive
    /\ isEditing
    /\ IF editFormData.name = <<>> \/ editFormData.code = <<>>
       THEN UNCHANGED showPasswordInput
       ELSE IF editIsCodeDuplicate(existingCodesOf(items), selectedItem, editFormData.code)
            THEN UNCHANGED showPasswordInput
            ELSE showPasswordInput' = [type |-> "item", targetId |-> NoId]
    /\ UNCHANGED <<items, clock, isEditing, editFormData, editingTransactionId,
                   transEditData, password>>
    /\ UNCHANGED appVars
    /\ UNCHANGED probeVars
    /\ persistEffect

\* handleEditTransaction: the edit button of a row that is not being edited
EditTransaction ==
    /\ modalActive
    /\ \E j \in 1..Len(selectedItem.transactions) :
          LET t == selectedItem.transactions[j]
          IN /\ editingTransactionId # t.id
             /\ editingTransactionId' = t.id
             /\ transEditData' = t
    /\ UNCHANGED <<items, clock, isEditing, editFormData, showPasswordInput, password>>
    /\ UNCHANGED appVars
    /\ UNCHANGED probeVars
    /\ persistEffect

\* the row being edited is on screen
editRowShown ==
    \E j \in 1..Len(selectedItem.transactions) :
        selectedItem.transactions[j].id = editingTransactionId

\* handleTransEditChange on the quantity field or, for a product, on the
\* serial field of the row being edited
TransEditChange ==
    /\ modalActive
    /\ editRowShown
    /\ \/ \E value \in TypedEditQuantities :
             transEditData' = [transEditData EXCEPT
                                  !.quantity = transEditValue("quantity", value)]
       \/ /\ selectedItem.type = "product"
          /\ \E value \in TypedEditSerials :
                transEditData' = [transEditData EXCEPT
                                     !.serialNumber = transEditValue("serialNumber", value)]
    /\ UNCHANGED <<items, clock, isEditing, editFormData, editingTransactionId,
                   showPasswordInput, password>>
    /\ UNCHANGED appVars
    /\ UNCHANGED probeVars
    /\ persistEffect

\* the cancel button of the row being edited
CancelTransEdit ==
    /\ modalActive
    /\ editRowShown
    /\ editingTransactionId' = NoId
    /\ UNCHANGED <<items, clock, isEditing, editFormData, transEditData,
                   showPasswordInput, password>>
    /\ UNCHANGED appVars
    /\ UNCHANGED probeVars
    /\ persistEffect

\* handleSaveTransEdit: the save button of the row being edited
SaveTransEdit ==
    /\ modalActive
    /\ editRowShown
    /\ showPasswordInput' = [type |-> "trans_save", targetId |-> editingTransactionId]
    /\ UNCHANGED <<items, clock, isEditing, editFormData, editingTransactionId,
                   transEditData, password>>
    /\ UNCHANGED appVars
    /\ UNCHANGED probeVars
    /\ persistEffect

\* handleDeleteTrans: the delete button of a row that is not being edited
DeleteTrans ==
    /\ modalActive
    /\ \E j \in 1..Len(selectedItem.transactions) :
          LET t == selectedItem.transactions[j]
          IN /\ editingTransactionId # t.id
             /\ showPasswordInput' = [type |-> "trans_delete", targetId |-> t.id]
    /\ UNCHANGED <<items, clock, isEditing, editFormData, editingTransactionId,
                   transEditData, password>>
    /\ UNCHANGED appVars
    /\ UNCHANGED probeVars
    /\ persistEffect

dialogOpen == authRole # "none" /\ detailOpen /\ showPasswordInput.type # "none"

\* typing into the password dialog
TypePassword ==
    /\ dialogOpen
    /\ \E p \in TypedPasswords : password' = p
    /\ UNCHANGED <<items, clock, isEditing, editFormData, editingTransactionId,
                   transEditData, showPasswordInput>>
    /\ UNCHANGED appVars
    /\ UNCHANGED probeVars
    /\ persistEffect

\* the cancel button of the password dialog
CancelAction ==
    /\ dialogOpen
    /\ showPasswordInput' = NoAction
    /\ password' = <<>>
    /\ UNCHANGED <<items, clock, isEditing, editFormData, editingTransactionId,
                   transEditData>>
    /\ UNCHANGED appVars
    /\ UNCHANGED probeVars
    /\ persistEffect

\* handleActionConfirm
ActionConfirm ==
    /\ dialogOpen
    /\ IF password # requiredPass(authRole)
       THEN UNCHANGED <<items, isEditing, editFormData, editingTransactionId,
                        showPasswordInput, password>>
       ELSE /\ clock < MaxClock
            /\ password' = <<>>
            /\ showPasswordInput' = NoAction
            /\ CASE showPasswordInput.type = "item" ->
                      /\ items' = handleUpdateItem(items, selectedItem.id, editFormData)
                      /\ isEditing' = FALSE
                      /\ UNCHANGED editingTransactionId
                 [] showPasswordInput.type = "trans_save" /\ showPasswordInput.targetId # NoId ->
                      /\ items' = handleUpdateTransaction(items, selectedItem.id,
                                      showPasswordInput.targetId, transEditData)
                      /\ editingTransactionId' = NoId
                      /\ UNCHANGED isEditing
                 [] showPasswordInput.type = "trans_delete" /\ showPasswordInput.targetId # NoId ->
                      /\ items' = handleDeleteTransaction(items, selectedItem.id,
                                      showPasswordInput.targetId)
                      /\ UNCHANGED <<isEditing, editingTransactionId>>
                 [] OTHER -> UNCHANGED <<items, isEditing, editingTransactionId>>
            /\ IF items' = items THEN UNCHANGED editFormData ELSE ReloadFormData
    /\ clock' = IF items' = items THEN clock ELSE clock + 1
    /\ UNCHANGED transEditData
    /\ UNCHANGED appVars
    /\ UNCHANGED probeVars
    /\ persistEffect

(***************************************************************************)
(* The startup fetch, the persist effect and the push to the remote store. *)
(***************************************************************************)
\* the detail modal when setItems replaces the collection
modalAfterReplace ==
    IF detailOpen
    THEN IF hasItem(items', selectedItemId)
         THEN /\ ReloadFormData
              /\ UNCHANGED <<isEditing, editingTransactionId, transEditData,
                             showPasswordInput, password>>
         ELSE UnmountModal
    ELSE IF selectedItemId # NoId /\ hasItem(items', selectedItemId)
         THEN MountModal(findItem(items', selectedItemId))
         ELSE UNCHANGED modalVars

\* the two effects of the mount, in the order of their declaration:
\* fetchFromServer up to its first await, then the persist effect on the
\* collection of the first render; without the KV settings the stored
\* collection is set at once and the persist effect runs again on it
Mount ==
    /\ startup = "created"
    /\ IF ~kvConfigured
       THEN /\ items' = IF localStorage # NoValue THEN parse(localStorage) ELSE items
            /\ localStorage' = stringify(items')
            /\ pushTimer' = rescheduled(pushTimer, items, items')
            /\ startup' = "done"
            /\ UNCHANGED syncStatus
       ELSE /\ syncStatus' = "loading"
            /\ startup' = "fetching"
            /\ localStorage' = stringify(items)
            /\ UNCHANGED <<items, pushTimer>>
    /\ UNCHANGED <<kvConfigured, bootStorage, remote, pushes>>
    /\ UNCHANGED <<clock, authRole, activeTab, selectedItemId, itemToDelete, deletePassword>>
    /\ UNCHANGED modalVars
    /\ UNCHANGED probeVars

fetchedItemsFromBoot(outcome) ==
    IF outcome = "result" THEN stringify(itemsOfPayload(remote)) ELSE bootStorage

\* the collection that fetchFromServer sets, or NoValue when it sets none
fetchedItems(outcome) ==
    IF outcome = "result" THEN stringify(itemsOfPayload(remote))
    ELSE IF localStorage # NoValue THEN localStorage
    ELSE NoValue

\* the continuation of fetchFromServer after the await: data.result holds a
\* collection, data.result is empty, or the request has failed
FetchResolve ==
    /\ startup = "fetching"
    /\ \E outcome \in {"result", "empty", "failed"} :
          /\ outcome = "result" => remote # NoValue
          /\ outcome = "empty" => remote = NoValue
          /\ items' = IF fetchedItems(outcome) # NoValue
                      THEN parse(fetchedItems(outcome)) ELSE items
          /\ localStorage' = IF fetchedItems(outcome) # NoValue
                             THEN stringify(items') ELSE localStorage
          /\ pushTimer' = IF fetchedItems(outcome) # NoValue
                          THEN rescheduled(pushTimer, items, items') ELSE pushTimer
          /\ syncStatus' = IF outcome = "result" THEN "success"
                           ELSE IF outcome = "empty" THEN "idle" ELSE "error"
    /\ startup' = "done"
    /\ modalAfterReplace
    /\ UNCHANGED <<kvConfigured, bootStorage, remote, pushes>>
    /\ UNCHANGED <<clock, authRole, activeTab, selectedItemId, itemToDelete, deletePassword>>
    /\ UNCHANGED probeVars

\* the timer of the persist effect runs saveToServer up to its await
PushTimerFire ==
    /\ \E timer \in pushTimer :
          /\ pushTimer' = pushTimer \ {timer}
          /\ IF kvConfigured
             THEN /\ syncStatus' = "loading"
                  /\ pushes' = pushes \cup {payloadOf(timer[2])}
             ELSE UNCHANGED <<syncStatus, pushes>>
    /\ UNCHANGED <<kvConfigured, startup, bootStorage, localStorage, remote>>
    /\ UNCHANGED <<items, clock>>
    /\ UNCHANGED appVars
    /\ UNCHANGED modalVars
    /\ UNCHANGED probeVars

storeAfterSetKeepsFirst(store, body, ok) == IF ok /\ store = NoValue THEN body ELSE store

\* the remote store after the command set/DB_KEY with a body
storeAfterSet(store, body, ok) == IF ok THEN body ELSE store

\* the POST of saveToServer is answered: stored, or failed
PushResolve ==
    /\ \E body \in pushes, ok \in BOOLEAN :
          /\ pushes' = pushes \ {body}
          /\ remote' = storeAfterSet(remote, body, ok)
          /\ syncStatus' = IF ok THEN "success" ELSE "error"
    /\ UNCHANGED <<kvConfigured, startup, bootStorage, localStorage, pushTimer>>
    /\ UNCHANGED <<items, clock>>
    /\ UNCHANGED appVars
    /\ UNCHANGED modalVars
    /\ UNCHANGED probeVars

\* the collections that an earlier session has left in the two stores
BootLocalItems ==
    handleAddItem(<<>>, [type |-> "part", code |-> <<"L">>, name |-> <<"L">>], 1, 0, 0, 0)

BootRemoteItems ==
    handleAddItem(<<>>, [type |-> "product", code |-> <<"R">>, name |-> <<"R">>], 0, 0, 1, 1)

BootStorages == {NoValue, stringify(BootLocalItems)}

BootRemotes == {NoValue, payloadOf(BootRemoteItems)}

\* the page has been loaded and rendered once; no effect has run
InitStartup ==
    /\ AppInit
    /\ kvConfigured \in BOOLEAN
    /\ startup = "created"
    /\ bootStorage \in BootStorages
    /\ localStorage = bootStorage
    /\ remote \in BootRemotes
    /\ pushTimer = NoTimer
    /\ pushes = {}
    /\ syncStatus = "idle"
    /\ arg = NoArg
    /\ res = NoRes

(***************************************************************************)
(* The backup file: handleLocalExport and handleLocalImport.               *)
(***************************************************************************)
\* a JSON array and Array.isArray on a parsed value
jsonArray(elements) == <<"array", elements>>

isArray(value) == value[1] = "array"

\* JSON.stringify(dataObj) of handleLocalExport, without the export date
exportText(its) == <<"json", [items |-> jsonArray(its), version |-> "2.0"]>>

\* files that the application has not written: one that is no JSON, one
\* without items, one whose items are no array, and one whose items break
\* the rules of the forms (an empty code, a negative quantity)
ForeignItems ==
    <<[id |-> <<"item", 0, 0>>, type |-> "part", code |-> <<>>, name |-> <<>>,
       transactions |-> <<[id |-> <<"t", 0, 0>>, type |-> "release", quantity |-> -1,
                           serialNumber |-> <<>>]>>]>>

ForeignFiles ==
    {<<"text", "{">>,
     <<"json", [version |-> "2.0"]>>,
     <<"json", [items |-> <<"string", "x">>, version |-> "2.0"]>>,
     exportText(ForeignItems)}

importedItemsValidated(its, text, confirmed) ==
    IF text[1] # "json" THEN its
    ELSE IF "items" \notin DOMAIN text[2] THEN its
    ELSE IF ~isArray(text[2].items) THEN its
    ELSE IF confirmed /\ \A i \in 1..Len(text[2].items[2]) : text[2].items[2][i].code # <<>>
         THEN text[2].items[2] ELSE its

\* reader.onload of handleLocalImport: JSON.parse throws on a text that is
\* no JSON; json.items must be an array; confirm() must be accepted
importedItems(its, text, confirmed) ==
    IF text[1] # "json" THEN its
    ELSE IF "items" \notin DOMAIN text[2] THEN its
    ELSE IF ~isArray(text[2].items) THEN its
    ELSE IF confirmed THEN text[2].items[2] ELSE its

\* the export button of the header: arg is the downloaded file, with the
\* collection that was exported
LocalExport ==
    /\ listActive
    /\ arg' = [kind |-> "file", text |-> exportText(items), exported |-> items]
    /\ UNCHANGED res
    /\ UNCHANGED stateVars

\* the files that the user can choose
ChoosableFiles == ForeignFiles \cup (IF arg.kind = "file" THEN {arg.text} ELSE {})

\* the import input of the header: res is the file chosen and the answer to
\* confirm()
LocalImport ==
    /\ listActive
    /\ \E text \in ChoosableFiles, confirmed \in BOOLEAN :
          /\ items' = importedItems(items, text, confirmed)
          /\ res' = [kind |-> "import", text |-> text, confirmed |-> confirmed]
    /\ modalAfterReplace
    /\ UNCHANGED arg
    /\ UNCHANGED <<clock, authRole, activeTab, selectedItemId, itemToDelete, deletePassword>>
    /\ persistEffect

Next ==
    \/ Login
    \/ Logout
    \/ SetActiveTab
    \/ AddItem
    \/ OpenDetail
    \/ CloseDetail
    \/ RequestDeleteItem
    \/ TypeDeletePassword
    \/ CancelDeleteItem
    \/ DeleteItemConfirm
    \/ SubmitTransaction
    \/ StartItemEdit
    \/ ItemEditChange
    \/ CancelItemEdit
    \/ SaveItemEdit
    \/ EditTransaction
    \/ TransEditChange
    \/ CancelTransEdit
    \/ SaveTransEdit
    \/ DeleteTrans
    \/ TypePassword
    \/ CancelAction
    \/ ActionConfirm
    \/ Mount
    \/ FetchResolve
    \/ PushTimerFire
    \/ PushResolve
    \/ LocalExport
    \/ LocalImport

Spec == InitStartup /\ [][Next]_vars

(***************************************************************************)
(* Specifications of the parts of the application.                         *)
(***************************************************************************)
\* item creation and transaction submission
NextSubmit ==
    \/ Login
    \/ SetActiveTab
    \/ AddItem
    \/ OpenDetail
    \/ CloseDetail
    \/ SubmitTransaction

SpecSubmit == Init /\ [][NextSubmit]_vars

\* the ledger: creation, submission, correction and deletion of transactions,
\* deletion of items
NextLedger ==
    \/ Login
    \/ SetActiveTab
    \/ AddItem
    \/ OpenDetail
    \/ CloseDetail
    \/ SubmitTransaction
    \/ EditTransaction
    \/ TransEditChange
    \/ CancelTransEdit
    \/ SaveTransEdit
    \/ DeleteTrans
    \/ TypePassword
    \/ CancelAction
    \/ ActionConfirm
    \/ RequestDeleteItem
    \/ TypeDeletePassword
    \/ CancelDeleteItem
    \/ DeleteItemConfirm

SpecLedger == Init /\ [][NextLedger]_vars

\* the items: creation, correction and deletion
NextItems ==
    \/ Login
    \/ Logout
    \/ SetActiveTab
    \/ AddItem
    \/ OpenDetail
    \/ CloseDetail
    \/ StartItemEdit
    \/ ItemEditChange
    \/ CancelItemEdit
    \/ SaveItemEdit
    \/ TypePassword
    \/ CancelAction
    \/ ActionConfirm
    \/ RequestDeleteItem
    \/ TypeDeletePassword
    \/ CancelDeleteItem
    \/ DeleteItemConfirm

SpecItems == Init /\ [][NextItems]_vars

(***************************************************************************)
(* The stock fold on its own: every transaction sequence up to MaxLen, in  *)
(* every order.                                                            *)
(***************************************************************************)
StockTransactions == [type : {"purchase", "release"}, quantity : 1..MaxQty]

StockSequences == UNION {[1..n -> StockTransactions] : n \in 0..MaxLen}

InitStock ==
    /\ StateInit
    /\ \E ts \in StockSequences : arg = [kind |-> "stock", orig |-> ts, txs |-> ts]
    /\ res = NoRes

\* another ordering of the same transactions: two neighbours change places
StockReorder ==
    /\ \E i \in 1..(Len(arg.txs) - 1) :
          arg' = [arg EXCEPT !.txs = [@ EXCEPT ![i] = arg.txs[i + 1], ![i + 1] = arg.txs[i]]]
    /\ res' = NoRes
    /\ UNCHANGED stateVars

\* the list view and the detail view derive the stock of the item
StockDerive ==
    /\ res = NoRes
    /\ res' = [kind |-> "stock",
               list |-> calculateStock([transactions |-> arg.txs]),
               detail |-> currentStock(arg.txs)]
    /\ UNCHANGED <<arg>>
    /\ UNCHANGED stateVars

NextStock == StockReorder \/ StockDerive

SpecStock == InitStock /\ [][NextStock]_vars

\* the sum of the quantities of the transactions of one type, taken over the
\* set of positions (no order involved)
RECURSIVE SumOfType(_, _, _)
SumOfType(ts, type, positions) ==
    IF positions = {} THEN 0
    ELSE LET j == CHOOSE k \in positions : TRUE
         IN (IF ts[j].type = type THEN ts[j].quantity ELSE 0)
            + SumOfType(ts, type, positions \ {j})

InboundMinusOutbound(ts) ==
    SumOfType(ts, "purchase", DOMAIN ts) - SumOfType(ts, "release", DOMAIN ts)

\* C1: in every ordering of the transactions of an item the stock of the list
\* view (calculateStock) and the stock of the detail view (currentStock) are
\* equal, and equal the sum of the purchase quantities minus the sum of the
\* release quantities of the original sequence.
C1_StockIsInboundMinusOutbound ==
    res.kind = "stock" =>
        /\ res.list = InboundMinusOutbound(arg.orig)
        /\ res.detail = res.list

\* a reordered sequence with both types whose stock has been derived
C1_Witness ==
    /\ res.kind = "stock"
    /\ arg.txs # arg.orig
    /\ Len(arg.txs) = MaxLen
    /\ \E i, j \in 1..Len(arg.txs) : arg.txs[i].type = "purchase" /\ arg.txs[j].type = "release"
    /\ arg.txs[1].type = "release"

(***************************************************************************)
(* parseSerialRange on its own: inputs of the form                         *)
(* <prefix><startDigits>~[<prefix>]<endDigits>.                            *)
(***************************************************************************)
RangePrefixes == {<<"S", "N">>}

RangeStartDigits == {<<"1">>, <<"2">>, <<"0", "9">>, <<"0", "0", "1">>,
                     <<"0", "0", "0", "0", "1">>}

RangeEndDigits == {<<"3">>, <<"1", "0">>, <<"1", "2">>, <<"0", "0", "3">>,
                   <<"1", "0", "0">>, <<"1", "0", "1">>,
                   <<"0", "0", "0", "1", "0">>, <<"0", "0", "1", "0", "5">>}

RangeParts == [prefix : RangePrefixes, startDigits : RangeStartDigits,
               repeatPrefix : BOOLEAN, endDigits : RangeEndDigits]

\* the text the user types for the parts
RangeText(parts) ==
    parts.prefix \o parts.startDigits \o <<"~">>
        \o (IF parts.repeatPrefix THEN parts.prefix ELSE <<>>) \o parts.endDigits

InitRange ==
    /\ StateInit
    /\ \E parts \in RangeParts :
          arg = [kind |-> "range", parts |-> parts, input |-> RangeText(parts)]
    /\ res = NoRes

\* parseSerialRange(serialNumber.toUpperCase()) as handleAddTransaction calls it
RangeExpand ==
    /\ res = NoRes
    /\ res' = [kind |-> "range", out |-> parseSerialRange(toUpperCase(arg.input))]
    /\ UNCHANGED <<arg>>
    /\ UNCHANGED stateVars

NextRange == RangeExpand

SpecRange == InitRange /\ [][NextRange]_vars

\* the numbers the start and the end digit strings denote, and the count
RangeStart == DigitsValue(arg.parts.startDigits)

RangeEnd == DigitsValue(arg.parts.endDigits)

RangeCount == RangeEnd - RangeStart + 1

\* the serials <prefix><n> for n = start .. end, padded to the width of the
\* start digits
RangeExpected ==
    [k \in 1..RangeCount |->
        arg.parts.prefix
            \o padStart(toString(RangeStart + k - 1), Len(arg.parts.startDigits))]

\* C9: a range with start <= end fails with the range error exactly when its
\* inclusive count end - start + 1 exceeds 100.
C9_TooLargeExactlyAbove100 ==
    (res.kind = "range" /\ RangeStart <= RangeEnd) =>
        (res.out.threw <=> RangeCount > 100)

\* C10: a range with start <= end and at most 100 members expands to exactly
\* the serials <prefix><n>, n = start .. end, in ascending order, padded to
\* the width of the start digits, whether or not the end repeats the prefix.
C10_ExpandsWholeRange ==
    (res.kind = "range" /\ RangeStart <= RangeEnd /\ RangeCount <= 100) =>
        (~res.out.threw /\ res.out.serials = RangeExpected)

(***************************************************************************)
(* Transaction submission, checked in every reachable state in which the   *)
(* form is on the screen, for the item it belongs to and every input it    *)
(* can hold.                                                               *)
(***************************************************************************)
\* the serial field of the form for an item: products only
FormSerials(item) ==
    IF item.type = "product" THEN {toUpperCase(t) : t \in TypedSerials} \cup {<<>>}
    ELSE {<<>>}

\* the expansion of the serial input of a submission: the serials it stands
\* for, and whether the range was turned down as too large
ExpandedRange(item, serialNumber) ==
    IF item.type = "product" /\ includes(serialNumber, "~")
    THEN parseSerialRange(toUpperCase(serialNumber))
    ELSE [threw |-> FALSE, serials |-> <<trim(toUpperCase(serialNumber))>>]

ExpandedSerials(item, serialNumber) == ExpandedRange(item, serialNumber).serials

\* one of the serials is not empty and is in the registry
Collides(serials, used) ==
    \E k \in 1..Len(serials) : serials[k] # <<>> /\ serials[k] \in used

\* the collections a submission can lead to (one per outcome of the draws),
\* used being the registry allUsedSerials of the collection
SubmissionResults(item, used, transactionType, quantity, serialNumber) ==
    LET plan == submitPlan(item, used, transactionType, quantity, serialNumber)
        txs  == submitTransactions(item, plan, transactionType, serialNumber)
    IN {addAll(items, item.id, txs, clock + 1, rs, 1) : rs \in RandomDraws(Len(txs))}

\* C2: an outbound submission whose total quantity exceeds the derived stock
\* of the item changes nothing; an outbound submission that is applied has a
\* quantity of at most the stock and lowers the stock by that quantity; and
\* an outbound submission with a positive quantity of at most the stock, a
\* valid range and no serial of the registry is applied.
C2_OutboundNeverExceedsStock ==
    modalActive =>
        LET item  == selectedItem
            stock == calculateStock(item)
            used  == allUsedSerialsOf(items)
        IN \A serialNumber \in FormSerials(item) :
           LET range == ExpandedRange(item, serialNumber)
           IN \A quantity \in TypedQuantities :
              LET qty == IF item.type = "product" /\ includes(serialNumber, "~")
                         THEN Len(range.serials) ELSE parseIntOrZero(quantity)
              IN \A after \in SubmissionResults(item, used, "release", quantity, serialNumber) :
                    /\ qty > stock => after = items
                    /\ after # items =>
                          /\ qty <= stock
                          /\ calculateStock(findItem(after, item.id)) = stock - qty
                    /\ (/\ 0 < qty
                        /\ qty <= stock
                        /\ ~range.threw
                        /\ ~Collides(range.serials, used)) => after # items

\* the item on the screen holds an applied outbound transaction, still has
\* stock, and an outbound submission of more than that stock is turned down
C2_Witness ==
    /\ modalActive
    /\ \E j \in 1..Len(selectedItem.transactions) : selectedItem.transactions[j].type = "release"
    /\ calculateStock(selectedItem) > 0
    /\ \E quantity \in TypedQuantities :
          /\ parseIntOrZero(quantity) > calculateStock(selectedItem)
          /\ SubmissionResults(selectedItem, allUsedSerialsOf(items), "release", quantity, <<>>) = {items}

\* C4: a submission one of whose expanded serials is in the registry of all
\* items changes nothing, also when only some members of a range collide.
C4_DuplicateRejectedInFull ==
    modalActive =>
        LET used == allUsedSerialsOf(items)
        IN \A serialNumber \in FormSerials(selectedItem) :
              Collides(ExpandedSerials(selectedItem, serialNumber), used) =>
                  \A transactionType \in {"purchase", "release"} :
                  \A quantity \in TypedQuantities :
                      SubmissionResults(selectedItem, used, transactionType, quantity,
                                        serialNumber) = {items}

\* the registry holds SN1 but not SN2, and the range SN1~2 is turned down
C4_Witness ==
    /\ modalActive
    /\ selectedItem.type = "product"
    /\ allUsedSerialsOf(items) = {<<"S", "N", "1">>}
    /\ ExpandedSerials(selectedItem, <<"S", "N", "1", "~", "2">>)
          = <<<<"S", "N", "1">>, <<"S", "N", "2">>>>
    /\ SubmissionResults(selectedItem, allUsedSerialsOf(items), "purchase", <<"1">>,
                           <<"S", "N", "1", "~", "2">>)
          = {items}

\* the transactions a submission appended to the item
AppendedTo(item, after) ==
    LET old == item.transactions
        new == findItem(after, item.id).transactions
    IN SubSeq(new, Len(old) + 1, Len(new))

\* C5 as stated: every applied submission on a product appends one
\* transaction per expanded serial, each with quantity 1.
C5_EverySubmissionQuantityOne ==
    (modalActive /\ selectedItem.type = "product") =>
        LET used == allUsedSerialsOf(items)
        IN \A serialNumber \in FormSerials(selectedItem) :
           \A transactionType \in {"purchase", "release"} : \A quantity \in TypedQuantities :
           \A after \in SubmissionResults(selectedItem, used, transactionType, quantity,
                                          serialNumber) :
               after # items =>
                   LET added == AppendedTo(selectedItem, after)
                   IN /\ Len(added) = Len(ExpandedSerials(selectedItem, serialNumber))
                      /\ \A k \in 1..Len(added) : added[k].quantity = 1

\* C5 amended: an applied range submission (the serial input holds "~") on a
\* product appends one transaction per expanded serial, in order, each with
\* quantity 1, and changes the stock by the number of serials; an applied
\* single-serial submission appends one transaction with the entered quantity.
C5_RangeQuantityOneSingleEntered ==
    (modalActive /\ selectedItem.type = "product") =>
        LET used  == allUsedSerialsOf(items)
            stock == calculateStock(selectedItem)
        IN \A serialNumber \in FormSerials(selectedItem) :
           LET targets == ExpandedSerials(selectedItem, serialNumber)
           IN \A transactionType \in {"purchase", "release"} :
              \A quantity \in TypedQuantities :
              \A after \in SubmissionResults(selectedItem, used, transactionType, quantity,
                                             serialNumber) :
                  after # items =>
                      LET added  == AppendedTo(selectedItem, after)
                          change == calculateStock(findItem(after, selectedItem.id)) - stock
                      IN IF includes(serialNumber, "~")
                         THEN /\ Len(added) = Len(targets)
                              /\ \A k \in 1..Len(added) :
                                    /\ added[k].quantity = 1
                                    /\ added[k].serialNumber = targets[k]
                                    /\ added[k].type = transactionType
                              /\ change = IF transactionType = "purchase"
                                          THEN Len(targets) ELSE 0 - Len(targets)
                         ELSE /\ Len(added) = 1
                              /\ added[1].quantity = parseIntOrZero(quantity)
                              /\ added[1].type = transactionType

\* the product on the screen holds the two transactions of the range SN1~2,
\* each of quantity 1, and its stock is 2
C5_Witness ==
    /\ modalActive
    /\ selectedItem.type = "product"
    /\ Len(selectedItem.transactions) = 2
    /\ selectedItem.transactions[1].serialNumber = <<"S", "N", "1">>
    /\ selectedItem.transactions[2].serialNumber = <<"S", "N", "2">>
    /\ \A j \in 1..2 : selectedItem.transactions[j].quantity = 1
    /\ calculateStock(selectedItem) = 2

(***************************************************************************)
(* The ledger under corrections: every transaction of every item.          *)
(***************************************************************************)
\* the positions <<item, transaction>> of the collection
LedgerPositions ==
    UNION {{<<i, j>> : j \in 1..Len(items[i].transactions)} : i \in 1..Len(items)}

TransactionAt(p) == items[p[1]].transactions[p[2]]

\* C3: no non-empty serial, read without regard to case, is carried by two
\* transactions of the collection.
C3_SerialsGloballyUnique ==
    \A p \in LedgerPositions : \A q \in LedgerPositions :
        (/\ p # q
         /\ TransactionAt(p).serialNumber # <<>>
         /\ TransactionAt(q).serialNumber # <<>>)
            => toUpperCase(TransactionAt(p).serialNumber)
                  # toUpperCase(TransactionAt(q).serialNumber)

\* C6: every persisted transaction has a quantity above zero.
C6_QuantitiesPositive ==
    \A p \in LedgerPositions : TransactionAt(p).quantity > 0

(***************************************************************************)
(* Item codes.                                                             *)
(***************************************************************************)
\* C7: no two items of the collection have codes that are equal without
\* regard to case.
C7_CodesUnique ==
    \A i \in 1..Len(items) : \A j \in 1..Len(items) :
        i # j => toUpperCase(items[i].code) # toUpperCase(items[j].code)

\* C8: a creation with an empty code, an empty name or a code equal without
\* regard to case to the code of an item changes nothing; any other creation
\* puts one item in front of the collection, whose ledger is one inbound
\* transaction of the initial quantity when that is above zero and is empty
\* otherwise.
C8_CreateItemValidatesAndSeeds ==
    \A itemType \in {"part", "product"} : \A typedCode \in TypedCodes :
    \A typedName \in TypedNames : \A initialQuantity \in TypedInitialQuantities :
    \A rs \in RandomDraws(2) :
        LET code  == toUpperCase(typedCode)
            name  == toUpperCase(typedName)
            after == addItemSubmit(items, itemType, code, name, initialQuantity,
                                   clock + 1, rs[1], rs[2])
            qty   == parseIntOrZero(initialQuantity)
        IN IF \/ code = <<>>
              \/ name = <<>>
              \/ \E i \in 1..Len(items) : toUpperCase(items[i].code) = toUpperCase(code)
           THEN after = items
           ELSE /\ Len(after) = Len(items) + 1
                /\ SubSeq(after, 2, Len(after)) = items
                /\ after[1].code = code
                /\ after[1].name = name
                /\ after[1].type = itemType
                /\ IF qty > 0
                   THEN /\ Len(after[1].transactions) = 1
                        /\ after[1].transactions[1].type = "purchase"
                        /\ after[1].transactions[1].quantity = qty
                        /\ calculateStock(after[1]) = qty
                   ELSE /\ after[1].transactions = <<>>
                        /\ calculateStock(after[1]) = 0

(***************************************************************************)
(* parseSerialRange on texts that are no range: free texts and ranges      *)
(* written from the larger number to the smaller.                          *)
(***************************************************************************)
TextChars == {"S", "1", " ", "~"}

\* the texts of at most MaxText characters
FreeTexts == UNION {[1..n -> TextChars] : n \in 0..MaxText}

DescendingStartDigits == {<<"5">>, <<"1", "0">>, <<"0", "0", "3">>, <<"1", "2">>}

DescendingEndDigits == {<<"3">>, <<"2">>, <<"0", "0", "1">>, <<"0", "9">>}

DescendingParts ==
    {parts \in [prefix : RangePrefixes, startDigits : DescendingStartDigits,
                repeatPrefix : BOOLEAN, endDigits : DescendingEndDigits] :
        DigitsValue(parts.startDigits) > DigitsValue(parts.endDigits)}

\* the text has the shape of the range pattern: something, digits, optional
\* white space, "~", anything, digits up to the end
HasRangeShape(s) ==
    \E a \in 1..Len(s), b \in 1..Len(s), t \in 1..Len(s), c \in 1..Len(s) :
        /\ a < b /\ b < t /\ t < c
        /\ \A i \in (a + 1)..b : IsDigit(s[i])
        /\ \A i \in (b + 1)..(t - 1) : IsSpace(s[i])
        /\ s[t] = "~"
        /\ \A i \in c..Len(s) : IsDigit(s[i])

InitLiteral ==
    /\ StateInit
    /\ \/ \E text \in FreeTexts :
             arg = [kind |-> "literal", input |-> text, descending |-> FALSE]
       \/ \E parts \in DescendingParts :
             arg = [kind |-> "literal", input |-> RangeText(parts), descending |-> TRUE]
    /\ res = NoRes

SpecLiteral == InitLiteral /\ [][NextRange]_vars

\* C11: on a text that has not the shape of the range pattern, and on a range
\* whose start is greater than its end, the result is the one-element
\* sequence of the trimmed text; nothing is thrown.
C11_LiteralFallback ==
    (/\ res.kind = "range"
     /\ arg.kind = "literal"
     /\ (arg.descending \/ ~HasRangeShape(arg.input))) =>
        /\ ~res.out.threw
        /\ Len(res.out.serials) = 1
        /\ res.out.serials[1] = trim(arg.input)

\* a descending range with the prefix repeated has been expanded
C11_Witness ==
    /\ res.kind = "range"
    /\ arg.kind = "literal"
    /\ arg.descending
    /\ arg.input = <<"S", "N", "1", "0", "~", "S", "N", "2">>
    /\ res.out.serials = <<arg.input>>

(***************************************************************************)
(* suggestNextSerial on lists of used serials, in every order.             *)
(***************************************************************************)
\* the used serials: letters and digits; the one without letters does not
\* match the pattern of suggestNextSerial
UsedSerialParts ==
    {[prefix |-> <<"S", "N">>, digits |-> <<"5">>],
     [prefix |-> <<"S", "N">>, digits |-> <<"0", "0", "0", "0", "9">>],
     [prefix |-> <<"S", "N">>, digits |-> <<"9", "9", "9", "9", "9">>],
     [prefix |-> <<"A", "B">>, digits |-> <<"3">>],
     [prefix |-> <<"A", "B">>, digits |-> <<"1", "2">>],
     [prefix |-> <<"X">>, digits |-> <<"0">>],
     [prefix |-> <<>>, digits |-> <<"7", "7">>]}

\* the lists of at most MaxLen different used serials
UsedSerialLists ==
    UNION {{l \in [1..n -> UsedSerialParts] : \A i, j \in 1..n : i # j => l[i] # l[j]} :
           n \in 0..MaxLen}

SerialText(parts) == parts.prefix \o parts.digits

InitSuggest ==
    /\ StateInit
    /\ \E used \in UsedSerialLists : arg = [kind |-> "suggest", used |-> used]
    /\ res = NoRes

\* the same used serials listed in another order: two neighbours change places
SuggestReorder ==
    /\ arg.kind = "suggest"
    /\ \E i \in 1..(Len(arg.used) - 1) :
          arg' = [arg EXCEPT !.used = [@ EXCEPT ![i] = arg.used[i + 1],
                                                ![i + 1] = arg.used[i]]]
    /\ res' = NoRes
    /\ UNCHANGED stateVars

\* suggestNextSerial(allUsedSerials)
SuggestDerive ==
    /\ arg.kind = "suggest"
    /\ res = NoRes
    /\ res' = [kind |-> "suggest",
               out |-> suggestNextSerial([i \in 1..Len(arg.used) |-> SerialText(arg.used[i])])]
    /\ UNCHANGED <<arg>>
    /\ UNCHANGED stateVars

NextSuggest == SuggestReorder \/ SuggestDerive

SpecSuggest == InitSuggest /\ [][NextSuggest]_vars

\* every used serial is letters followed by digits
AllUsedMatch == \A i \in 1..Len(arg.used) : arg.used[i].prefix # <<>>

\* the greatest number carried by a used serial
MaxUsedSuffix ==
    CHOOSE n \in {DigitsValue(arg.used[i].digits) : i \in 1..Len(arg.used)} :
        \A i \in 1..Len(arg.used) : DigitsValue(arg.used[i].digits) <= n

\* n written with at least 5 digits
AtLeastFiveDigits(n) ==
    IF n >= 10000 THEN toString(n)
    ELSE SubSeq(<<"0", "0", "0", "0">>, 1, 5 - Len(toString(n))) \o toString(n)

\* the digits the suggested serial ends with
SuggestedSuffix ==
    SubSeq(res.out, Len(res.out) - DigitSuffixLen(res.out) + 1, Len(res.out))

SuggestedPrefix == SubSeq(res.out, 1, Len(res.out) - DigitSuffixLen(res.out))

C13_PrefixOfTheMaximum ==
    (res.kind = "suggest" /\ arg.used # <<>> /\ AllUsedMatch) =>
        \E i \in 1..Len(arg.used) :
            /\ DigitsValue(arg.used[i].digits) = MaxUsedSuffix
            /\ SuggestedPrefix = arg.used[i].prefix

(***************************************************************************)
(* The operations behind a password: the deletion of an item, the commit   *)
(* of an item edit, the edit and the deletion of a transaction.            *)
(***************************************************************************)
NextGate ==
    \/ Login
    \/ AddItem
    \/ OpenDetail
    \/ CloseDetail
    \/ StartItemEdit
    \/ ItemEditChange
    \/ CancelItemEdit
    \/ SaveItemEdit
    \/ EditTransaction
    \/ TransEditChange
    \/ CancelTransEdit
    \/ SaveTransEdit
    \/ DeleteTrans
    \/ TypePassword
    \/ CancelAction
    \/ ActionConfirm
    \/ RequestDeleteItem
    \/ TypeDeletePassword
    \/ CancelDeleteItem
    \/ DeleteItemConfirm

SpecGate == Init /\ [][NextGate]_vars

\* the secret of a role, as the specification names it
SecretOf(role) ==
    CASE role = "admin" -> <<"0", "0", "0", "0">>
      [] role = "product_only" -> <<"1", "1", "1", "1">>
      [] OTHER -> <<"?">>

\* the step only adds: every item stays as it was but for transactions added
OnlyAdds ==
    \A i \in 1..Len(items) :
        \E k \in 1..Len(items') :
            /\ [items'[k] EXCEPT !.transactions = items[i].transactions] = items[i]
            /\ \A j \in 1..Len(items[i].transactions) :
                  \E m \in 1..Len(items'[k].transactions) :
                      items'[k].transactions[m] = items[i].transactions[j]

\* the delete dialog or the password dialog holds the secret of the role
DeleteSecretEntered == itemToDelete # NoId /\ deletePassword = SecretOf(authRole)

ActionSecretEntered ==
    showPasswordInput.type # "none" /\ password = SecretOf(authRole)

GatedStep ==
    /\ (items' # items /\ ~OnlyAdds) => (DeleteSecretEntered \/ ActionSecretEntered)
    /\ (items' # items /\ itemToDelete # NoId) => DeleteSecretEntered
    /\ (items' # items /\ showPasswordInput.type # "none") => ActionSecretEntered
    /\ (CancelDeleteItem \/ CancelAction) => items' = items

MismatchKeeps ==
    /\ (authRole # "none" /\ itemToDelete # NoId /\ ~DeleteSecretEntered) =>
          /\ ~ENABLED (DeleteItemConfirm /\ (items' # items \/ itemToDelete' # itemToDelete))
          /\ ENABLED TypeDeletePassword
    /\ (dialogOpen /\ ~ActionSecretEntered) =>
          /\ ~ENABLED (ActionConfirm /\ (items' # items \/ showPasswordInput' # showPasswordInput))
          /\ ENABLED TypePassword

\* C14: a step that deletes an item, changes the code or the name of an item,
\* or changes or deletes a transaction is taken only while the dialog of the
\* operation holds the secret of the role that is logged in; a confirmation
\* with another secret leaves the collection and the open dialog as they are
\* and the secret can be typed again; a cancellation leaves the collection.
C14_GatedBySecret == []MismatchKeeps /\ [][GatedStep]_vars

C14_Witness ==
    /\ authRole = "product_only"
    /\ clock = 2
    /\ Len(items) = 1
    /\ items[1].transactions = <<>>
    /\ itemToDelete = items[1].id
    /\ deletePassword = ADMIN_PASSWORD

\* C15: a confirmation with a secret that is not the secret of the role
\* leaves the input field of the dialog empty.
C15_MismatchClearsSecret ==
    /\ (authRole # "none" /\ itemToDelete # NoId /\ ~DeleteSecretEntered) =>
          ~ENABLED (DeleteItemConfirm /\ deletePassword' # <<>>)
    /\ (dialogOpen /\ ~ActionSecretEntered) =>
          ~ENABLED (ActionConfirm /\ password' # <<>>)

\* the step opens the delete dialog, or the password dialog of the detail modal
DeleteRequested == itemToDelete = NoId /\ itemToDelete' # NoId

ActionRequested == showPasswordInput.type = "none" /\ showPasswordInput'.type # "none"

\* C16: a dialog that has just been opened by a request does not hold the
\* secret of the role: the secret that applies the operation is typed after
\* the request.
C16_SecretEnteredAfterRequest ==
    [][ /\ DeleteRequested => deletePassword' # SecretOf(authRole')
        /\ ActionRequested => password' # SecretOf(authRole') ]_vars

\* C17: while the product-only role is logged in the active tab is the
\* product tab, and no part is among the listed items.
C17_ProductOnlySeesProducts ==
    authRole = "product_only" =>
        /\ activeTab = "product"
        /\ \A i \in filteredInventory : items[i].type = "product"

(***************************************************************************)
(* The startup and the two stores, with the creation and the deletion of   *)
(* items as the changes of the collection.                                 *)
(***************************************************************************)
\* the changes of the collection that one session makes
MaxChanges == 1

NextSync ==
    \/ Mount
    \/ FetchResolve
    \/ PushTimerFire
    \/ PushResolve
    \/ Login
    \/ clock < MaxChanges /\ AddItem
    \/ RequestDeleteItem
    \/ TypeDeletePassword
    \/ CancelDeleteItem
    \/ DeleteItemConfirm /\ clock' <= MaxChanges

SpecSync == InitStartup /\ [][NextSync]_vars

\* the step ends the startup: the mount without the KV settings, or the
\* answer of the startup fetch
StartupEnds == startup # "done" /\ startup' = "done"

\* the startup has taken the collection of the remote store
RemoteTaken == kvConfigured /\ syncStatus' = "success"

\* C18: when the startup ends, the collection is the one of the remote store
\* if the fetch has returned one; otherwise it is the collection that the
\* local storage held when the page was loaded; it stays as it is when
\* neither exists.
C18_StartupRestoresSnapshot ==
    [][ StartupEnds =>
          items' = IF RemoteTaken THEN itemsOfPayload(remote)
                   ELSE IF bootStorage # NoValue THEN parse(bootStorage)
                   ELSE items ]_vars

\* C19: a step that changes the collection leaves the local storage with the
\* text of the new collection, whatever the timer, the KV settings and the
\* sync status are.
C19_LocalSnapshotFollows ==
    [][ items' # items =>
          /\ localStorage' # NoValue
          /\ parse(localStorage') = items' ]_vars

C19_Witness ==
    /\ kvConfigured
    /\ startup = "done"
    /\ syncStatus = "error"
    /\ pushTimer # NoTimer
    /\ pushes # {}
    /\ clock = 1
    /\ Len(items) = 1
    /\ localStorage = stringify(items)

\* C20: a step that changes the collection leaves a push of the new
\* collection scheduled, the empty collection included.
C20_EveryChangeSchedulesPush ==
    [][ items' # items => pushTimer' = {<<"timer", items'>>} ]_vars

\* the step changes the collection while a push is scheduled
ChangeWhileScheduled == items' # items /\ pushTimer # NoTimer

\* the step runs a scheduled push
ScheduledPushRuns == kvConfigured /\ pushTimer' # pushTimer /\ pushTimer' \subseteq pushTimer

\* C21: at most one push is scheduled at any time; a change of the
\* collection while a push is scheduled leaves exactly the push of the new
\* collection scheduled; a scheduled push that runs sends the whole
\* collection as it is then.
C21_OnePushPerBurst ==
    /\ [](Cardinality(pushTimer) <= 1)
    /\ [][ /\ ChangeWhileScheduled => pushTimer' = {<<"timer", items'>>}
           /\ ScheduledPushRuns => pushes' = pushes \cup {payloadOf(items)} ]_vars

(***************************************************************************)
(* Every change of the collection together with the startup fetch and the  *)
(* push, for sessions of MaxChanges changes.                               *)
(***************************************************************************)
NextLocal ==
    \/ Mount
    \/ FetchResolve
    \/ PushTimerFire
    \/ PushResolve
    \/ Login
    \/ clock < MaxChanges /\ AddItem
    \/ OpenDetail
    \/ clock < MaxChanges /\ SubmitTransaction
    \/ StartItemEdit
    \/ ItemEditChange
    \/ SaveItemEdit
    \/ EditTransaction
    \/ TransEditChange
    \/ SaveTransEdit
    \/ DeleteTrans
    \/ TypePassword
    \/ ActionConfirm /\ clock' <= MaxChanges
    \/ RequestDeleteItem
    \/ TypeDeletePassword
    \/ DeleteItemConfirm /\ clock' <= MaxChanges

SpecLocal == InitStartup /\ [][NextLocal]_vars

\* the step is the failure of the startup fetch, or of a push
FetchFails == startup = "fetching" /\ startup' = "done" /\ syncStatus' = "error"

PushFails == pushes' # pushes /\ pushes' \subseteq pushes /\ syncStatus' = "error"

\* the user interface admits the creation (some typed code passes the
\* validation of the form), the confirmed deletion, the submission of a
\* transaction, the confirmed action of the password dialog
CreateOpen ==
    /\ authRole # "none"
    /\ itemToDelete = NoId
    /\ ~detailOpen
    /\ clock < MaxClock
    /\ \E code \in TypedCodes \ {<<>>} :
          ~addIsCodeDuplicate(existingCodesOf(items), toUpperCase(code))

DeleteOpen ==
    /\ authRole # "none"
    /\ hasItem(items, itemToDelete)
    /\ deletePassword = SecretOf(authRole)
    /\ clock < MaxClock

SubmitOpen ==
    /\ authRole # "none"
    /\ detailOpen
    /\ showPasswordInput.type = "none"
    /\ ~isEditing
    /\ clock < MaxClock

ActionOpen ==
    /\ authRole # "none"
    /\ detailOpen
    /\ showPasswordInput.type # "none"
    /\ password = SecretOf(authRole)
    /\ clock < MaxClock

MutationsOpen ==
    /\ CreateOpen => ENABLED (AddItem /\ items' # items)
    /\ DeleteOpen => ENABLED (DeleteItemConfirm /\ ~hasItem(items', itemToDelete))
    /\ SubmitOpen => ENABLED (SubmitTransaction /\ items' # items)
    /\ ActionOpen => ENABLED (ActionConfirm /\ showPasswordInput'.type = "none")

\* C22: the failure of the startup fetch or of a push leaves the collection
\* and the local storage as they are; whatever the sync status is, the
\* creation and the deletion of an item, the submission of a transaction and
\* the confirmed edit or deletion can be carried out.
C22_FailuresKeepLocalWork ==
    /\ []MutationsOpen
    /\ [][ (FetchFails \/ PushFails) =>
             (items' = items /\ localStorage' = localStorage) ]_vars

C22_Witness ==
    /\ kvConfigured
    /\ startup = "done"
    /\ syncStatus = "error"
    /\ pushes = {}
    /\ remote = NoValue
    /\ clock = 1
    /\ Len(items) = 1
    /\ ActionOpen

\* C23: the failure of a push schedules and starts no push; while the sync
\* status is the error of a failure, a push is scheduled only by a step that
\* changes the collection, and a push is started only by a scheduled timer.
C23_FailedPushAbandoned ==
    [][ /\ PushFails => (pushTimer' = pushTimer /\ pushes' \subseteq pushes)
        /\ (syncStatus = "error" /\ ~(pushTimer' \subseteq pushTimer)) => items' # items
        /\ (syncStatus = "error" /\ ~(pushes' \subseteq pushes)) =>
              (pushTimer' # pushTimer /\ pushTimer' \subseteq pushTimer) ]_vars

(***************************************************************************)
(* Two instances of the application that push to the same remote store.    *)
(* arg holds the collection, the timer, the pushes under way and the sync  *)
(* status of each instance, res the instances in the order in which their  *)
(* pushes have been stored.                                                *)
(***************************************************************************)
Instances == {1, 2}

InstanceCollections ==
    {BootLocalItems, BootRemoteItems, BootRemoteItems \o BootLocalItems}

InitTwo ==
    /\ AppInit
    /\ kvConfigured = TRUE
    /\ startup = "done"
    /\ bootStorage = NoValue
    /\ localStorage = stringify(<<>>)
    /\ remote \in BootRemotes
    /\ pushTimer = NoTimer
    /\ pushes = {}
    /\ syncStatus = "idle"
    /\ \E collections \in [Instances -> InstanceCollections] :
          arg = [kind |-> "instances",
                 of |-> [i \in Instances |->
                            [items |-> collections[i],
                             pushTimer |-> timerFor(collections[i]),
                             pushes |-> {},
                             syncStatus |-> "idle"]]]
    /\ res = [kind |-> "stored", order |-> <<>>]

\* everything but the remote store and the instances
instanceFrame ==
    <<items, clock, authRole, activeTab, selectedItemId, itemToDelete, deletePassword,
      isEditing, editFormData, editingTransactionId, transEditData, showPasswordInput,
      password, kvConfigured, startup, bootStorage, localStorage, pushTimer, pushes,
      syncStatus>>

\* the timer of an instance runs saveToServer up to its await
InstancePushTimerFire ==
    /\ arg.kind = "instances"
    /\ \E i \in Instances :
          \E timer \in arg.of[i].pushTimer :
              arg' = [arg EXCEPT !.of[i].pushTimer = @ \ {timer},
                                 !.of[i].pushes = @ \cup {payloadOf(timer[2])},
                                 !.of[i].syncStatus = "loading"]
    /\ UNCHANGED <<remote, res>>
    /\ UNCHANGED instanceFrame

\* the POST of an instance is answered
InstancePushResolve ==
    /\ arg.kind = "instances"
    /\ \E i \in Instances, ok \in BOOLEAN :
          \E body \in arg.of[i].pushes :
              /\ arg' = [arg EXCEPT !.of[i].pushes = @ \ {body},
                                    !.of[i].syncStatus = IF ok THEN "success" ELSE "error"]
              /\ remote' = storeAfterSet(remote, body, ok)
              /\ res' = IF ok THEN [res EXCEPT !.order = Append(@, i)] ELSE res
    /\ UNCHANGED instanceFrame

NextTwo == InstancePushTimerFire \/ InstancePushResolve

SpecTwo == InitTwo /\ [][NextTwo]_vars

\* both instances have pushed and both pushes have been stored
BothStored ==
    /\ arg.kind = "instances"
    /\ Len(res.order) = 2
    /\ \A i \in Instances : arg.of[i].pushTimer = {} /\ arg.of[i].pushes = {}

\* C24: when the pushes of both instances have been stored, the remote store
\* holds the whole collection of the instance whose push was stored last and
\* nothing of the other one, and both instances show success.
C24_LastPushWins ==
    BothStored =>
        /\ itemsOfPayload(remote) = arg.of[res.order[2]].items
        /\ \A i \in Instances : arg.of[i].syncStatus = "success"

C24_Witness ==
    /\ BothStored
    /\ res.order = <<2, 1>>
    /\ arg.of[1].items = BootLocalItems
    /\ arg.of[2].items = BootRemoteItems
    /\ remote = payloadOf(BootLocalItems)

(***************************************************************************)
(* The backup file with the creation and the deletion of items.            *)
(***************************************************************************)
NextBackup ==
    \/ Login
    \/ clock < MaxChanges /\ AddItem
    \/ RequestDeleteItem
    \/ TypeDeletePassword
    \/ DeleteItemConfirm
    \/ LocalExport
    \/ LocalImport

SpecBackup == Init /\ [][NextBackup]_vars

\* the step is an import: of the file that LocalExport has written, with
\* the confirmation accepted; or one that must change nothing
ImportOfExport ==
    res' # res /\ arg.kind = "file" /\ res'.text = arg.text /\ res'.confirmed

ImportRefused ==
    /\ res' # res
    /\ \/ ~res'.confirmed
       \/ res'.text \in ForeignFiles \ {exportText(ForeignItems)}

ImportOfForeign == res' # res /\ res'.text = exportText(ForeignItems) /\ res'.confirmed

RegistryItems ==
    handleAddItem(
        handleAddItem(<<>>, [type |-> "product", code |-> <<"P", "1">>, name |-> <<"P">>],
                      1, 0, 0, 0),
        [type |-> "product", code |-> <<"P", "2">>, name |-> <<"P">>], 1, 0, 1, 1)

InitRegistry ==
    /\ items = RegistryItems
    /\ clock = 0
    /\ authRole = "none"
    /\ activeTab = "part"
    /\ selectedItemId = NoId
    /\ itemToDelete = NoId
    /\ deletePassword = <<>>
    /\ isEditing = FALSE
    /\ editFormData = NoFormData
    /\ editingTransactionId = NoId
    /\ transEditData = NoTransData
    /\ showPasswordInput = NoAction
    /\ password = <<>>
    /\ kvConfigured = FALSE
    /\ startup = "done"
    /\ bootStorage = stringify(RegistryItems)
    /\ localStorage = stringify(RegistryItems)
    /\ remote = NoValue
    /\ pushTimer = timerFor(RegistryItems)
    /\ pushes = {}
    /\ syncStatus = "idle"
    /\ arg = NoArg
    /\ res = NoRes

NextRegistry ==
    \/ Login
    \/ SetActiveTab
    \/ OpenDetail
    \/ CloseDetail
    \/ EditTransaction
    \/ TransEditChange
    \/ SaveTransEdit
    \/ TypePassword
    \/ ActionConfirm
    \/ RequestDeleteItem
    \/ TypeDeletePassword
    \/ DeleteItemConfirm

SpecRegistry == InitRegistry /\ [][NextRegistry]_vars

\* the step is a confirmed deletion of the item of the delete dialog
ItemDeleted == itemToDelete # NoId /\ items' # items

\* the places of the items that are not the one of the delete dialog
OtherPlaces == {i \in 1..Len(items) : items[i].id # itemToDelete}

\* C26: a confirmed deletion removes the item of the dialog and no other:
\* the other items stay, unchanged and in their order; the serials of the
\* deleted item are no longer in the registry of used serials.
C26_DeleteRemovesItemAndSerials ==
    [][ ItemDeleted =>
          /\ Len(items') = Len(items) - 1
          /\ Cardinality(OtherPlaces) = Len(items')
          /\ \A i \in OtherPlaces :
                items'[Cardinality({k \in OtherPlaces : k <= i})] = items[i]
          /\ \A s \in serialsOf(findItem(items, itemToDelete).transactions) :
                s \notin allUsedSerialsOf(items') ]_vars

\* the ids of the transactions of the collection are pairwise distinct
TransactionIdsDistinct ==
    \A p \in LedgerPositions : \A q \in LedgerPositions :
        p # q => TransactionAt(p).id # TransactionAt(q).id

\* the step is a confirmed deletion, or a confirmed edit, of a transaction
TransactionDeleted ==
    showPasswordInput.type = "trans_delete" /\ items' # items

TransactionEdited ==
    showPasswordInput.type = "trans_save" /\ items' # items

\* the transactions of the collection before and after the step
LedgerBefore == {<<p, TransactionAt(p)>> : p \in LedgerPositions}

LedgerAfter ==
    UNION {{<<(<<i, j>>), items'[i].transactions[j]>> :
                j \in 1..Len(items'[i].transactions)} : i \in 1..Len(items')}

\* C27: the ids of the transactions are pairwise distinct, so a confirmed
\* deletion removes exactly one transaction and a confirmed edit changes
\* exactly one transaction.
C27_TransactionIdsDistinct ==
    /\ []TransactionIdsDistinct
    /\ [][ /\ TransactionDeleted =>
                Cardinality(LedgerAfter) = Cardinality(LedgerBefore) - 1
           /\ TransactionEdited =>
                /\ Cardinality(LedgerAfter) = Cardinality(LedgerBefore)
                /\ Cardinality(LedgerAfter \ LedgerBefore) = 1 ]_vars

\* the step is the answer to the startup fetch, after changes of the
\* collection made while the fetch was in flight
FetchAnswersAfterChange ==
    startup = "fetching" /\ startup' = "done" /\ clock > 0

\* C28: what has been changed while the startup fetch was in flight is still
\* in the collection when the fetch has been answered, whatever the answer.
C28_ChangesSurviveStartupFetch ==
    [][ FetchAnswersAfterChange =>
          \A i \in 1..Len(items) : \E j \in 1..Len(items') : items'[j] = items[i] ]_vars

\* C29: in a collection built from the empty one by creations of items and
\* submissions of transactions, the derived stock of no item is negative.
C29_StockNeverNegative ==
    \A i \in 1..Len(items) : calculateStock(items[i]) >= 0

\* a product holds the two outbound transactions of a range submission and
\* has stock left
C29_Witness ==
    \E i \in 1..Len(items) :
        /\ items[i].type = "product"
        /\ \E j \in 1..Len(items[i].transactions) : \E k \in 1..Len(items[i].transactions) :
              /\ items[i].transactions[j].type = "release"
              /\ items[i].transactions[k].type = "release"
              /\ items[i].transactions[j].serialNumber = <<"S", "N", "1">>
              /\ items[i].transactions[k].serialNumber = <<"S", "N", "2">>
        /\ calculateStock(items[i]) = 1

(***************************************************************************)
(* suggestNextSerial on registries that hold long serials.                 *)
(***************************************************************************)
\* the serials of the registry: with the numbers 2^53 - 1, 2^53 and 2^53 + 2,
\* short ones, and one that does not match the pattern
RegistrySerialParts ==
    {[prefix |-> <<"S", "N">>, digits |-> <<"5">>],
     [prefix |-> <<"A", "B">>, digits |-> <<"0", "0", "0", "1", "2">>],
     [prefix |-> <<>>, digits |-> <<"7", "7">>],
     [prefix |-> <<"S", "N">>,
      digits |-> <<"9","0","0","7","1","9","9","2","5","4","7","4","0","9","9","1">>],
     [prefix |-> <<"S", "N">>,
      digits |-> <<"9","0","0","7","1","9","9","2","5","4","7","4","0","9","9","2">>],
     [prefix |-> <<"S", "N">>,
      digits |-> <<"9","0","0","7","1","9","9","2","5","4","7","4","0","9","9","4">>]}

RegistrySerialLists ==
    UNION {{l \in [1..n -> RegistrySerialParts] : \A i, j \in 1..n : i # j => l[i] # l[j]} :
           n \in 0..MaxLen}

InitRegistrySuggest ==
    /\ StateInit
    /\ \E used \in RegistrySerialLists : arg = [kind |-> "suggest", used |-> used]
    /\ res = NoRes

SpecRegistrySuggest == InitRegistrySuggest /\ [][NextSuggest]_vars

\* C30: the serial that suggestNextSerial makes of a registry is no serial
\* of that registry.
C30_SuggestionIsFresh ==
    res.kind = "suggest" =>
        \A i \in 1..Len(arg.used) : SerialText(arg.used[i]) # res.out

====
